---- MODULE Spec2Model ----
(***************************************************************************)
(* Model of mcp_server.py: the WSGI application, MCPHandler.handle_request *)
(* and the sixteen PodmanTools operations, each a sequence of calls into   *)
(* the podman client (the collaborator), whose replies are nondeterministic.*)
(***************************************************************************)
EXTENDS Integers, Sequences, FiniteSets, TLC

\* ------------------------------------------------------------------ bounds
\* request threads of the WSGI server that may be inside `application`
NThreads == 2
\* PodmanClient objects that may be constructed after process start
MaxClients == 2

Threads == 1..NThreads
\* run_simple without threaded=True serves one request at a time
SeqThreads == {1}

VARIABLES
    pc,        \* pc[t]: "idle" | "running" (inside an operation) | "responded"
    req,       \* req[t]: the HTTP request being served by thread t
    frame,     \* frame[t]: locals of the operation thread t is executing
    calls,     \* calls[t]: collaborator calls issued while serving req[t]
    resp,      \* resp[t]: the HTTP response produced for req[t]
    client,    \* mcp_handler.podman_tools.client (identity of the PodmanClient)
    manifest   \* mcp_handler.tools_manifest

vars == <<pc, req, frame, calls, resp, client, manifest>>

\* ------------------------------------------------------------ JSON values
JNull == [type |-> "null", v |-> ""]
JNumber == [type |-> "number", v |-> "1"]
JString == [type |-> "string", v |-> "a"]
IdValues == {JNull, JNumber, JString}

\* ------------------------------------------------- PodmanTools signatures
Operations ==
    {"list_containers", "inspect_container", "run_container",
     "create_container", "start_container", "stop_container",
     "restart_container", "remove_container", "pause_container",
     "unpause_container", "get_container_logs", "exec_command",
     "list_images", "pull_image", "remove_image", "get_system_info"}

\* parameter names of each operation, `self` excluded
Declared(op) ==
    CASE op \in {"list_containers", "list_images"} -> {"all"}
      [] op \in {"inspect_container", "start_container", "stop_container",
                 "restart_container", "pause_container",
                 "unpause_container"} -> {"container_id"}
      [] op = "run_container" -> {"image", "command", "detach"}
      [] op = "create_container" -> {"image", "command", "name"}
      [] op = "remove_container" -> {"container_id", "force"}
      [] op = "get_container_logs" -> {"container_id", "tail", "since", "follow"}
      [] op = "exec_command" -> {"container_id", "command", "workdir"}
      [] op = "pull_image" -> {"repository", "tag"}
      [] op = "remove_image" -> {"image_id", "force"}
      [] OTHER -> {}

\* parameters without a default value
Required(op) ==
    CASE op \in {"inspect_container", "start_container", "stop_container",
                 "restart_container", "pause_container", "unpause_container",
                 "remove_container", "get_container_logs"} -> {"container_id"}
      [] op \in {"run_container", "create_container"} -> {"image"}
      [] op = "exec_command" -> {"container_id", "command"}
      [] op = "pull_image" -> {"repository"}
      [] op = "remove_image" -> {"image_id"}
      [] OTHER -> {}

\* ----------------------------------------------------------- the manifest
Prop(n, ty) == [name |-> n, type |-> ty]

PropType(n) ==
    IF n \in {"all", "detach", "force", "follow"} THEN "boolean" ELSE "string"

\* an entry that marks every declared field as required
Mut_Tool(n, d, props, reqd) ==
    [name |-> n, description |-> d,
     properties |-> {Prop(p, PropType(p)) : p \in props}, required |-> props]

Tool(n, d, props, reqd) ==
    [name |-> n, description |-> d,
     properties |-> {Prop(p, PropType(p)) : p \in props}, required |-> reqd]

\* the entries of the container operations
container_tools ==
    {Tool("list_containers", "Lists Podman containers.", {"all"}, {}),
     Tool("inspect_container", "Inspect a specific container.",
          {"container_id"}, {"container_id"}),
     Tool("run_container", "Run a new container from an image.",
          {"image", "command", "detach"}, {"image"}),
     Tool("create_container", "Create a new container without starting it.",
          {"image", "command", "name"}, {"image"}),
     Tool("start_container", "Start a stopped container.",
          {"container_id"}, {"container_id"}),
     Tool("stop_container", "Stop a running container.",
          {"container_id"}, {"container_id"}),
     Tool("restart_container", "Restart a container.",
          {"container_id"}, {"container_id"}),
     Tool("remove_container", "Remove a container.",
          {"container_id", "force"}, {"container_id"}),
     Tool("pause_container", "Pause a running container.",
          {"container_id"}, {"container_id"}),
     Tool("unpause_container", "Unpause a paused container.",
          {"container_id"}, {"container_id"}),
     Tool("get_container_logs", "Get logs from a container.",
          {"container_id", "tail", "since", "follow"}, {"container_id"}),
     Tool("exec_command", "Execute a command in a running container.",
          {"container_id", "command", "workdir"}, {"container_id", "command"})}

\* a manifest whose last entry was left out
Mut_image_tools ==
    {Tool("list_images", "List container images.", {"all"}, {}),
     Tool("pull_image", "Pull an image from a registry.",
          {"repository", "tag"}, {"repository"}),
     Tool("remove_image", "Remove an image.",
          {"image_id", "force"}, {"image_id"})}

\* the entries of the image operations and of the system query
image_tools ==
    {Tool("list_images", "List container images.", {"all"}, {}),
     Tool("pull_image", "Pull an image from a registry.",
          {"repository", "tag"}, {"repository"}),
     Tool("remove_image", "Remove an image.",
          {"image_id", "force"}, {"image_id"}),
     Tool("get_system_info", "Get Podman system information.", {}, {})}

tools_manifest == container_tools \cup image_tools

\* --------------------------------------------- operation results, envelopes
Res(kind, keys, status, message, json, tools) ==
    [kind |-> kind, keys |-> keys, status |-> status, message |-> message,
     json |-> json, tools |-> tools]

NoResult == Res("absent", {}, "", "", TRUE, {})

\* {"error": str(e)}
ErrorResult(m) == Res("dict", {"error"}, "", m, TRUE, {})

DictResult(keys, status) == Res("dict", keys, status, "", TRUE, {})

_create_success_response(result, req_id) ==
    [jsonrpc |-> "2.0", members |-> {"jsonrpc", "result", "id"},
     result |-> result, code |-> 0, message |-> "", id |-> req_id]

\* an error envelope that drops the id it was given
Mut_create_error_response(code, message, req_id) ==
    [jsonrpc |-> "2.0", members |-> {"jsonrpc", "error", "id"},
     result |-> NoResult, code |-> code, message |-> message, id |-> JNull]

_create_error_response(code, message, req_id) ==
    [jsonrpc |-> "2.0", members |-> {"jsonrpc", "error", "id"},
     result |-> NoResult, code |-> code, message |-> message, id |-> req_id]

NoEnvelope ==
    [jsonrpc |-> "", members |-> {}, result |-> NoResult, code |-> 0,
     message |-> "", id |-> JNull]

\* ------------------------------------------------------- HTTP requests
EmptyKV == [k \in {} |-> ""]

NoParams == [type |-> "absent", kv |-> EmptyKV]

\* values a params object may carry under a key; "false" and "" are falsy
Truthy(v) == v \notin {"false", ""}

ParamObject(K, d, w) ==
    [type |-> "object",
     kv |-> [k \in K |-> IF k = "detach" THEN d
                         ELSE IF k = "workdir" THEN w
                         ELSE "x"]]

\* params sent with a request for `name`: not an object, or an object over
\* any subset of the declared parameter names and one undeclared name
ParamChoices(name) ==
    {[type |-> "array", kv |-> EmptyKV], [type |-> "null", kv |-> EmptyKV]}
    \cup {ParamObject(K, d, w) :
            K \in SUBSET (Declared(name) \cup {"bogus"}),
            d \in {"true", "false"}, w \in {"/tmp", ""}}

MethodNames ==
    Operations \cup {"tools/list", "no_such_tool", "__init__", "__class__",
                     "__repr__", "client"}

JStr(s) == [type |-> "string", v |-> s]

MethodValues == {JStr(n) : n \in MethodNames} \cup {JNumber}

EnvelopeKeys == {"jsonrpc", "method", "params", "id"}

JObject(has, method, params, id) ==
    [type |-> "object", has |-> has, method |-> method, params |-> params,
     id |-> id]

\* a decoded body that is not an object
JOther(ty) == JObject({}, JNull, NoParams, JNull) @@ [type |-> ty]

\* a key of the request object that may be absent
Absent(filler) == [has |-> FALSE, v |-> filler]
Present(value) == [has |-> TRUE, v |-> value]

Keys(j, m, p, i) ==
    (IF j THEN {"jsonrpc"} ELSE {}) \cup (IF m.has THEN {"method"} ELSE {})
    \cup (IF p # NoParams THEN {"params"} ELSE {})
    \cup (IF i.has THEN {"id"} ELSE {})

RequestObjects ==
    UNION {{JObject(Keys(j, m, p, i), m.v, p, i.v) :
                j \in BOOLEAN,
                p \in {NoParams} \cup ParamChoices(m.v.v),
                i \in {Absent(JNull)} \cup {Present(x) : x \in IdValues}} :
           m \in {Absent(JNull)} \cup {Present(x) : x \in MethodValues}}

DecodedValues ==
    RequestObjects \cup {JOther(ty) : ty \in {"array", "string", "number", "null"}}

Body(encoding, syntax, value) ==
    [encoding |-> encoding, syntax |-> syntax, value |-> value]

NoRequest == [method |-> "", data |-> Body("", "", JOther("null"))]

\* ------------------------------------------------------------- json.loads
\* bytes that are not UTF-8 raise UnicodeDecodeError, text that is not JSON
\* raises JSONDecodeError, anything else decodes to its value
json_loads(data) ==
    IF data.encoding # "utf-8" THEN [exc |-> "UnicodeDecodeError", value |-> data.value]
    ELSE IF data.syntax # "json" THEN [exc |-> "JSONDecodeError", value |-> data.value]
    ELSE [exc |-> "", value |-> data.value]

HttpRequests ==
    {[method |-> "POST", data |-> Body("utf-8", "json", v)] : v \in DecodedValues}
    \cup {[method |-> "POST", data |-> Body("utf-8", "garbage", JOther("null"))],
          [method |-> "POST", data |-> Body("invalid", "garbage", JOther("null"))],
          [method |-> "GET", data |-> Body("utf-8", "garbage", JOther("null"))]}

\* ---------------------------------------------------------- HTTP responses
Http(status, envelope, exc) ==
    [status |-> status, envelope |-> envelope, exc |-> exc]

NoResponse == Http(0, NoEnvelope, "")

\* Response(json.dumps(response_data), ...): json.dumps raises TypeError on a
\* value it cannot serialise, and `application` does not catch it
Serialize(envelope) ==
    IF envelope.result.json THEN Http(200, envelope, "")
    ELSE Http(500, NoEnvelope, "TypeError")

\* ------------------------------------------------ getattr(podman_tools, n)
AttrKind(n) ==
    CASE n \in Operations -> "operation"
      [] n = "__init__" -> "constructor"
      [] n = "__class__" -> "class"
      [] n = "__repr__" -> "object_method"
      [] n = "client" -> "field"
      [] OTHER -> "missing"

Callable(kind) ==
    kind \in {"operation", "constructor", "class", "object_method"}

\* a binding that accepts undeclared keywords, as a **kwargs signature would
Mut_Binds(n, params) ==
    /\ params.type = "object"
    /\ Required(n) \subseteq DOMAIN params.kv

\* method_to_call(**params)
Binds(n, params) ==
    /\ params.type = "object"
    /\ DOMAIN params.kv \subseteq Declared(n)
    /\ Required(n) \subseteq DOMAIN params.kv

BindError(n, params) ==
    IF params.type # "object" THEN "argument after ** must be a mapping"
    ELSE IF ~(DOMAIN params.kv \subseteq Declared(n))
         THEN "got an unexpected keyword argument"
    ELSE "missing required positional argument"

\* request_data.get(key, default)
Get(request_data, key, default) ==
    IF key \in request_data.has
    THEN (CASE key = "id" -> request_data.id
            [] key = "params" -> request_data.params
            [] key = "method" -> request_data.method)
    ELSE default

\* the part of handle_request before the call of a bound method:
\*   "return": an envelope is returned without calling anything
\*   "call":   method_to_call(**params) bound and its body runs
\*   "raise":  an exception left handle_request
Return(envelope) ==
    [outcome |-> "return", envelope |-> envelope, exc |-> "", kind |-> ""]

InternalError(request_data, detail) ==
    Return(_create_error_response(-32603, "Internal error: " \o detail,
                                  Get(request_data, "id", JNull)))

\* a validation that forgets the `jsonrpc` key
Mut_MissingEnvelopeKey(request_data) == "method" \notin request_data.has

\* "method" not in request_data or "jsonrpc" not in request_data
MissingEnvelopeKey(request_data) ==
    "method" \notin request_data.has \/ "jsonrpc" \notin request_data.has

\* a manifest that is rebuilt from the tools object and is lost with its client
Mut_tools_list(request_id) ==
    _create_success_response(
        Res("manifest", {}, "", "", TRUE, IF client = 0 THEN manifest ELSE {}),
        request_id)

\* the discovery method: the manifest held by the handler, as it is now
tools_list(request_id) ==
    _create_success_response(Res("manifest", {}, "", "", TRUE, manifest),
                             request_id)

handle_request(request_data) ==
    IF request_data.type # "object"
    THEN [outcome |-> "raise", envelope |-> NoEnvelope,
          exc |-> "AttributeError", kind |-> ""]
    ELSE IF MissingEnvelopeKey(request_data)
    THEN Return(_create_error_response(-32600, "Invalid Request",
                                       Get(request_data, "id", JNull)))
    ELSE LET method_name == request_data.method
             params == Get(request_data, "params",
                           [type |-> "object", kv |-> EmptyKV])
             request_id == Get(request_data, "id", JNull)
             kind == AttrKind(method_name.v)
         IN  IF method_name = JStr("tools/list")
             THEN Return(tools_list(request_id))
             ELSE IF method_name.type # "string"
             THEN InternalError(request_data, "attribute name must be string")
             ELSE IF ~Callable(kind)
             THEN Return(_create_error_response(-32601, "Method not found",
                                                request_id))
             ELSE IF ~Binds(method_name.v, params)
             THEN InternalError(request_data, BindError(method_name.v, params))
             ELSE [outcome |-> "call", envelope |-> NoEnvelope, exc |-> "",
                   kind |-> kind]

\* ------------------------------------------------- the collaborator's replies
Msgs == {"no such container", "connection refused"}

Raises == {[raise |-> TRUE, msg |-> m, shape |-> "", json |-> TRUE] : m \in Msgs}

Returns(shapes, jsons) ==
    {[raise |-> FALSE, msg |-> "", shape |-> s, json |-> j] :
        s \in shapes, j \in jsons}

\* --------------------------------------------------- PodmanTools operations
Frame(op, args, request_id, step, shape, handle_client) ==
    [op |-> op, args |-> args, request_id |-> request_id, step |-> step,
     shape |-> shape, handle_client |-> handle_client]

NoFrame == Frame("", EmptyKV, JNull, 0, "", 0)

Call(name, via, arg) == [name |-> name, via |-> via, arg |-> arg]

\* lifecycle operations: client.containers.get(container_id), then one
\* method of the container that was returned
HandleMethod(op) ==
    CASE op = "start_container" -> "start"
      [] op = "stop_container" -> "stop"
      [] op = "restart_container" -> "restart"
      [] op = "remove_container" -> "remove"
      [] op = "pause_container" -> "pause"
      [] op = "unpause_container" -> "unpause"
      [] op = "get_container_logs" -> "logs"
      [] op = "exec_command" -> "exec_run"
      [] OTHER -> ""

StatusWord(op) ==
    CASE op = "start_container" -> "started"
      [] op = "stop_container" -> "stopped"
      [] op = "restart_container" -> "restarted"
      [] op = "remove_container" -> "removed"
      [] op = "pause_container" -> "paused"
      [] op = "unpause_container" -> "unpaused"
      [] OTHER -> ""

\* the collaborator call the operation makes next
CallAt(f) ==
    IF f.step = 0
    THEN CASE f.op = "list_containers" -> Call("containers.list", "client", "all")
           [] f.op = "run_container" -> Call("containers.run", "client", "image")
           [] f.op = "create_container" -> Call("containers.create", "client", "image")
           [] f.op = "list_images" -> Call("images.list", "client", "all")
           [] f.op = "pull_image" -> Call("images.pull", "client", "repository")
           [] f.op = "remove_image" -> Call("images.get", "client", "image_id")
           [] f.op = "get_system_info" -> Call("info", "client", "")
           [] OTHER -> Call("containers.get", "client", "container_id")
    ELSE CASE f.op = "run_container" -> Call("containers.get", "client", "str(container)")
           [] f.op = "remove_image" -> Call("images.remove", "client", "image_id")
           [] f.op = "exec_command" ->
                Call("exec_run", "handle",
                     IF "workdir" \in DOMAIN f.args /\ Truthy(f.args["workdir"])
                     THEN "command,workdir" ELSE "command")
           [] OTHER -> Call(HandleMethod(f.op), "handle", "")

\* what the collaborator may answer to that call
Replies(f) ==
    LET c == CallAt(f).name
    IN  Raises \cup
        (CASE c \in {"containers.list", "images.list"} ->
                Returns({"empty"}, {TRUE}) \cup Returns({"items"}, BOOLEAN)
           [] c = "containers.get" /\ f.op = "inspect_container" ->
                Returns({"handle"}, BOOLEAN)
           [] c \in {"containers.get", "images.get"} -> Returns({"handle"}, {TRUE})
           [] c \in {"containers.run", "containers.create"} ->
                Returns({"handle", "id"}, {TRUE})
           [] c = "images.pull" ->
                Returns({"handle", "list", "emptylist", "id"}, {TRUE})
           [] c = "logs" -> Returns({"bytes", "other"}, {TRUE})
           [] c = "exec_run" -> Returns({"named", "tuple", "other"}, {TRUE})
           [] c = "info" -> Returns({"info"}, BOOLEAN)
           [] OTHER -> Returns({"none"}, {TRUE}))

\* the operation returned `result`, raised `exc` to its caller, or goes on
Done(result) == [done |-> TRUE, result |-> result, exc |-> ""]
Raise(exc) == [done |-> TRUE, result |-> NoResult, exc |-> exc]
\* an operation that returns right after its first collaborator call
Mut_Continue == [done |-> TRUE, result |-> NoResult, exc |-> ""]

Continue == [done |-> FALSE, result |-> NoResult, exc |-> ""]

\* an operation without its try/except: the failure reaches handle_request
Mut_Caught(o) == Raise(o.msg)

\* the `except Exception as e: return {"error": str(e)}` of every operation
Caught(o) == Done(ErrorResult(o.msg))

ContainerKeys == {"id", "name", "status", "image"}

\* the operation's code after the collaborator answered o to CallAt(f)
Step(f, o) ==
    IF o.raise THEN Caught(o)
    ELSE CASE f.op = "list_containers" ->
                Done(Res("list", IF o.shape = "items" THEN ContainerKeys ELSE {},
                         "", "", o.json, {}))
           [] f.op = "list_images" ->
                Done(Res("list", IF o.shape = "items"
                                 THEN {"id", "tags", "size", "created"} ELSE {},
                         "", "", o.json, {}))
           [] f.op \in {"inspect_container", "get_system_info"} ->
                Done(Res("attrs", {}, "", "", o.json, {}))
           [] f.op = "run_container" ->
                IF f.step = 0 /\ o.shape = "id" THEN Continue
                ELSE Done(DictResult(ContainerKeys,
                          IF "detach" \in DOMAIN f.args => Truthy(f.args["detach"])
                          THEN "running" ELSE "created"))
           [] f.op = "create_container" ->
                IF o.shape = "handle"
                THEN Done(DictResult(ContainerKeys, "created"))
                ELSE Done(ErrorResult("'str' object has no attribute 'short_id'"))
           [] f.op = "pull_image" ->
                IF o.shape \in {"handle", "list"}
                THEN Done(DictResult({"id", "tags", "status"}, "pulled"))
                ELSE Done(DictResult({"repository", "tag", "status"}, "pulled"))
           [] f.op = "remove_image" ->
                IF f.step = 0 THEN Continue
                ELSE Done(DictResult({"id", "tags", "status"}, "removed"))
           [] f.op = "get_container_logs" ->
                IF f.step = 0 THEN Continue
                ELSE Done(DictResult({"logs"}, ""))
           [] f.op = "exec_command" ->
                IF f.step = 0 THEN Continue
                ELSE IF o.shape \in {"named", "tuple"}
                THEN Done(DictResult({"exit_code", "output"}, ""))
                ELSE Done(ErrorResult("Unexpected result format from exec_run"))
           [] OTHER ->
                IF f.step = 0 THEN Continue
                ELSE Done(DictResult({"id", "name", "status"}, StatusWord(f.op)))

\* ------------------------------------------------------------- application
TypeOK ==
    /\ pc \in [Threads -> {"idle", "running", "responded"}]
    /\ client \in 0..MaxClients

Init ==
    /\ pc = [t \in Threads |-> "idle"]
    /\ req = [t \in Threads |-> NoRequest]
    /\ frame = [t \in Threads |-> NoFrame]
    /\ calls = [t \in Threads |-> <<>>]
    /\ resp = [t \in Threads |-> NoResponse]
    /\ client = 0
    /\ manifest = tools_manifest

Respond(t, r, response) ==
    /\ pc' = [pc EXCEPT ![t] = "responded"]
    /\ req' = [req EXCEPT ![t] = r]
    /\ resp' = [resp EXCEPT ![t] = response]

\* PodmanTools.__init__: self.client = PodmanClient()
PodmanTools__init__ == client + 1

\* application(request), up to the response or to the first collaborator call
Receive(t, r) ==
    /\ pc[t] = "idle"
    /\ LET d == json_loads(r.data)
           h == handle_request(d.value)
       IN  IF r.method # "POST"
           THEN /\ Respond(t, r, Http(405, NoEnvelope, ""))
                /\ UNCHANGED <<frame, calls, client, manifest>>
           ELSE IF d.exc = "JSONDecodeError"
           THEN /\ Respond(t, r, Http(400, _create_error_response(
                                              -32700, "Parse error", JNull), ""))
                /\ UNCHANGED <<frame, calls, client, manifest>>
           ELSE IF d.exc # ""
           THEN /\ Respond(t, r, Http(500, NoEnvelope, d.exc))
                /\ UNCHANGED <<frame, calls, client, manifest>>
           ELSE IF h.outcome = "raise"
           THEN /\ Respond(t, r, Http(500, NoEnvelope, h.exc))
                /\ UNCHANGED <<frame, calls, client, manifest>>
           ELSE IF h.outcome = "return"
           THEN /\ Respond(t, r, Serialize(h.envelope))
                /\ UNCHANGED <<frame, calls, client, manifest>>
           ELSE IF h.kind = "operation"
           THEN /\ pc' = [pc EXCEPT ![t] = "running"]
                /\ req' = [req EXCEPT ![t] = r]
                /\ frame' = [frame EXCEPT ![t] =
                       Frame(d.value.method.v,
                             Get(d.value, "params",
                                 [type |-> "object", kv |-> EmptyKV]).kv,
                             Get(d.value, "id", JNull), 0, "", 0)]
                /\ UNCHANGED <<calls, resp, client, manifest>>
           ELSE IF h.kind = "constructor"
           THEN /\ client < MaxClients
                /\ client' = PodmanTools__init__
                /\ Respond(t, r, Serialize(_create_success_response(
                              Res("null", {}, "", "", TRUE, {}),
                              Get(d.value, "id", JNull))))
                /\ UNCHANGED <<frame, calls, manifest>>
           ELSE /\ Respond(t, r, Serialize(_create_success_response(
                              IF h.kind = "class"
                              THEN Res("object", {}, "", "", FALSE, {})
                              ELSE Res("string", {}, "", "", TRUE, {}),
                              Get(d.value, "id", JNull))))
                /\ UNCHANGED <<frame, calls, client, manifest>>

\* handle_request after method_to_call(**params) came back: the result is
\* wrapped, an exception that left the operation is mapped to -32603
Returned(f, s) ==
    IF s.exc = ""
    THEN _create_success_response(s.result, f.request_id)
    ELSE _create_error_response(-32603, "Internal error: " \o s.exc,
                                f.request_id)

\* one collaborator call of the running operation and the code that follows it
CollabCall(t) ==
    /\ pc[t] = "running"
    /\ \E o \in Replies(frame[t]) :
         LET f == frame[t]
             c == CallAt(f)
             s == Step(f, o)
             used == IF c.via = "handle" THEN f.handle_client ELSE client
         IN  /\ calls' = [calls EXCEPT ![t] =
                    Append(@, c @@ [client |-> used, raised |-> o.raise,
                                    msg |-> o.msg, shape |-> o.shape])]
             /\ IF s.done
                THEN /\ pc' = [pc EXCEPT ![t] = "responded"]
                     /\ resp' = [resp EXCEPT ![t] = Serialize(Returned(f, s))]
                     /\ UNCHANGED frame
                ELSE /\ frame' = [frame EXCEPT ![t] =
                            [f EXCEPT !.step = f.step + 1, !.shape = o.shape,
                                      !.handle_client = client]]
                     /\ UNCHANGED <<pc, resp>>
             /\ UNCHANGED <<req, client, manifest>>

\* the response was sent; request, response and result are discarded
Finish(t) ==
    /\ pc[t] = "responded"
    /\ pc' = [pc EXCEPT ![t] = "idle"]
    /\ req' = [req EXCEPT ![t] = NoRequest]
    /\ frame' = [frame EXCEPT ![t] = NoFrame]
    /\ calls' = [calls EXCEPT ![t] = <<>>]
    /\ resp' = [resp EXCEPT ![t] = NoResponse]
    /\ UNCHANGED <<client, manifest>>

\* run_simple(host, port, application): one request at a time
Next ==
    \E t \in SeqThreads :
        \/ \E r \in HttpRequests : Receive(t, r)
        \/ CollabCall(t)
        \/ Finish(t)

Spec == Init /\ [][Next]_vars

\* the same application under a threaded WSGI server: requests of several
\* threads interleave at the collaborator calls
Post(n, K) ==
    [method |-> "POST",
     data |-> Body("utf-8", "json",
                   JObject(EnvelopeKeys, JStr(n), ParamObject(K, "true", ""),
                           JNumber))]

ConcurrentRequests ==
    {Post(n, Required(n)) :
        n \in {"tools/list", "__init__", "stop_container", "remove_image",
               "list_images"}}
    \cup {Post("stop_container", {}),
          [method |-> "POST", data |-> Body("utf-8", "garbage", JOther("null"))]}

NextThreaded ==
    \E t \in Threads :
        \/ \E r \in ConcurrentRequests : Receive(t, r)
        \/ CollabCall(t)
        \/ Finish(t)

SpecThreaded == Init /\ [][NextThreaded]_vars

\* ================================================================ claims
Value(t) == req[t].data.value

\* thread t is serving a POST whose body decoded as JSON
DecodedPost(t) ==
    /\ pc[t] # "idle"
    /\ req[t].method = "POST"
    /\ req[t].data.encoding = "utf-8"
    /\ req[t].data.syntax = "json"

\* ... and the decoded value is an object with both envelope keys
RoutedPost(t) ==
    /\ DecodedPost(t)
    /\ Value(t).type = "object"
    /\ {"method", "jsonrpc"} \subseteq Value(t).has

RequestId(t) == IF "id" \in Value(t).has THEN Value(t).id ELSE JNull

RequestParams(t) ==
    IF "params" \in Value(t).has THEN Value(t).params
    ELSE [type |-> "object", kv |-> EmptyKV]

IsError(e, code, message, id) ==
    /\ e.jsonrpc = "2.0"
    /\ e.members = {"jsonrpc", "error", "id"}
    /\ e.code = code
    /\ e.message = message
    /\ e.id = id

IsSuccess(e, id) ==
    /\ e.jsonrpc = "2.0"
    /\ e.members = {"jsonrpc", "result", "id"}
    /\ e.id = id

NothingInvoked(t) == calls[t] = <<>> /\ frame[t] = NoFrame

RegisteredNames ==
    {"list_containers", "inspect_container", "run_container",
     "create_container", "start_container", "stop_container",
     "restart_container", "remove_container", "pause_container",
     "unpause_container", "get_container_logs", "exec_command",
     "list_images", "pull_image", "remove_image", "get_system_info"}

\* C1: every POST whose body decodes as JSON, whatever the decoded value, is
\* answered with HTTP 200 and an envelope with jsonrpc "2.0" and exactly one
\* of `result` and `error`.
C1_EveryJsonBodyAnswered ==
    \A t \in Threads :
        (pc[t] = "responded" /\ DecodedPost(t)) =>
            /\ resp[t].status = 200
            /\ resp[t].envelope.jsonrpc = "2.0"
            /\ ("result" \in resp[t].envelope.members)
                   # ("error" \in resp[t].envelope.members)

\* C2: a request with both envelope keys whose method string is neither
\* "tools/list" nor a registered operation gets the error -32601 with its id
\* echoed, and nothing is invoked.
C2_UnregisteredMethodNotFound ==
    \A t \in Threads :
        (/\ RoutedPost(t)
         /\ Value(t).method.type = "string"
         /\ Value(t).method.v \notin RegisteredNames \cup {"tools/list"}) =>
            /\ pc[t] = "responded"
            /\ resp[t].status = 200
            /\ IsError(resp[t].envelope, -32601, "Method not found", RequestId(t))
            /\ NothingInvoked(t)

\* C3: a decoded request object that lacks `method` or `jsonrpc` gets HTTP 200
\* and the error -32600 with id the request's id, or null without one, also
\* when the method is "tools/list" or an operation; no operation is invoked.
C3_InvalidRequest ==
    \A t \in Threads :
        (/\ DecodedPost(t)
         /\ Value(t).type = "object"
         /\ ("method" \notin Value(t).has \/ "jsonrpc" \notin Value(t).has)) =>
            /\ pc[t] = "responded"
            /\ resp[t].status = 200
            /\ IsError(resp[t].envelope, -32600, "Invalid Request", RequestId(t))
            /\ NothingInvoked(t)

\* a request that names an operation, binds its parameters and carries an id
\* but has no `jsonrpc` key was answered with -32600
C3_Witness ==
    \E t \in Threads :
        /\ pc[t] = "responded" /\ DecodedPost(t)
        /\ Value(t).has = {"method", "params", "id"}
        /\ Value(t).method = JStr("stop_container")
        /\ DOMAIN Value(t).params.kv = {"container_id"}
        /\ Value(t).id = JNumber
        /\ resp[t].envelope.code = -32600
        /\ resp[t].envelope.id = JNumber

\* C4: a POST body that is not decodable as JSON gets HTTP 400 with the error
\* -32700 "Parse error" and id null, without handle_request being called; and
\* HTTP 400 is returned for nothing else.
C4_UndecodableBodyIs400 ==
    \A t \in Threads :
        pc[t] = "responded" =>
            /\ (req[t].method = "POST" /\ ~DecodedPost(t)) =>
                  /\ resp[t].status = 400
                  /\ IsError(resp[t].envelope, -32700, "Parse error", JNull)
                  /\ NothingInvoked(t)
            /\ resp[t].status = 400 => (req[t].method = "POST" /\ ~DecodedPost(t))

\* C5: when a collaborator call made by an operation raises a failure with
\* message m, the operation ends there and the response is HTTP 200 with a
\* success envelope whose result is {"error": m}; never an error envelope.
C5_CollaboratorFailureIsResult ==
    \A t \in Threads :
        \A i \in DOMAIN calls[t] :
            calls[t][i].raised =>
                /\ i = Len(calls[t])
                /\ pc[t] = "responded"
                /\ resp[t].status = 200
                /\ IsSuccess(resp[t].envelope, RequestId(t))
                /\ resp[t].envelope.result =
                       [kind |-> "dict", keys |-> {"error"}, status |-> "",
                        message |-> calls[t][i].msg, json |-> TRUE, tools |-> {}]
                /\ resp[t].envelope.code # -32603

\* the second collaborator call of stop_container failed
C5_Witness ==
    \E t \in Threads :
        /\ pc[t] = "responded"
        /\ Value(t).method = JStr("stop_container")
        /\ Len(calls[t]) = 2
        /\ calls[t][2].name = "stop" /\ calls[t][2].raised
        /\ calls[t][2].msg = "connection refused"
        /\ resp[t].envelope.result.message = "connection refused"

BindingFails(t) ==
    LET p == RequestParams(t)
        n == Value(t).method.v
    IN  \/ p.type # "object"
        \/ \E k \in DOMAIN p.kv : k \notin Declared(n)
        \/ \E k \in Required(n) : k \notin DOMAIN p.kv

TypeErrors ==
    {"argument after ** must be a mapping",
     "got an unexpected keyword argument",
     "missing required positional argument"}

\* C6: a request naming an operation whose params do not bind (not an object,
\* an undeclared key, a required parameter missing) gets the error -32603
\* "Internal error: <failure>" with its id; the operation does not run.
C6_BindingFailureIsInternalError ==
    \A t \in Threads :
        (/\ RoutedPost(t)
         /\ Value(t).method.type = "string"
         /\ Value(t).method.v \in RegisteredNames
         /\ BindingFails(t)) =>
            /\ pc[t] = "responded"
            /\ resp[t].status = 200
            /\ \E m \in TypeErrors :
                 IsError(resp[t].envelope, -32603, "Internal error: " \o m,
                         RequestId(t))
            /\ NothingInvoked(t)

\* exec_command was sent its required parameters and an undeclared one
C6_Witness ==
    \E t \in Threads :
        /\ pc[t] = "responded" /\ RoutedPost(t)
        /\ Value(t).method = JStr("exec_command")
        /\ Value(t).params.type = "object"
        /\ DOMAIN Value(t).params.kv = {"container_id", "command", "bogus"}
        /\ Value(t).id = JString
        /\ resp[t].envelope.code = -32603
        /\ resp[t].envelope.id = JString

\* C7: "tools/list" with both envelope keys returns, for any id and params, a
\* success envelope whose result is the manifest, with one entry for each of
\* the 16 operation names and no other; nothing is invoked.
C7_ToolsListReturnsManifest ==
    \A t \in Threads :
        (RoutedPost(t) /\ Value(t).method = JStr("tools/list")) =>
            /\ pc[t] = "responded"
            /\ resp[t].status = 200
            /\ IsSuccess(resp[t].envelope, RequestId(t))
            /\ resp[t].envelope.result.kind = "manifest"
            /\ {d.name : d \in resp[t].envelope.result.tools} = RegisteredNames
            /\ Cardinality(resp[t].envelope.result.tools) = 16
            /\ NothingInvoked(t)

\* tools/list was sent params that are not an object, and no id
C7_Witness ==
    \E t \in Threads :
        /\ pc[t] = "responded" /\ RoutedPost(t)
        /\ Value(t).method = JStr("tools/list")
        /\ Value(t).has = {"jsonrpc", "method", "params"}
        /\ Value(t).params.type = "array"
        /\ resp[t].envelope.result.kind = "manifest"

\* C8: an envelope produced for a decoded request object carries the
\* request's id, null when it has none; an error envelope has id null only if
\* the request had no id, a null id, or its body could not be parsed.
C8_IdEchoed ==
    \A t \in Threads :
        pc[t] = "responded" =>
            /\ (DecodedPost(t) /\ Value(t).type = "object"
                    /\ resp[t].envelope # NoEnvelope)
                 => resp[t].envelope.id = RequestId(t)
            /\ ("error" \in resp[t].envelope.members
                    /\ resp[t].envelope.id = JNull)
                 => \/ ~DecodedPost(t)
                    \/ "id" \notin Value(t).has
                    \/ Value(t).id = JNull

\* an unknown method with a string id was answered with -32601 and that id
C8_Witness ==
    \E t \in Threads :
        /\ pc[t] = "responded" /\ RoutedPost(t)
        /\ Value(t).method = JStr("no_such_tool")
        /\ Value(t).id = JString
        /\ resp[t].envelope.code = -32601
        /\ resp[t].envelope.id = JString

\* C9: the manifest is the one built at process start in every reachable
\* state, and every tools/list answer carries exactly that manifest.
C9_ManifestNeverChanges ==
    /\ manifest = tools_manifest
    /\ \A t \in Threads :
         (pc[t] = "responded" /\ resp[t].envelope.result.kind = "manifest")
            => resp[t].envelope.result.tools = tools_manifest

\* tools/list was answered after an earlier request replaced the client
C9_Witness ==
    \E t \in Threads :
        /\ pc[t] = "responded" /\ RoutedPost(t)
        /\ Value(t).method = JStr("tools/list")
        /\ client > 0
        /\ resp[t].envelope.result.tools = tools_manifest

\* C10: under any interleaving of requests, no request changes in-process
\* state shared with other requests: the manifest and the client held by the
\* tools object stay the ones built at process start.
C10_NoSharedStateChange == [][client' = client /\ manifest' = manifest]_vars

\* thread t answered a request that invoked a registered operation
Invoked(t) == pc[t] = "responded" /\ frame[t].op # ""

\* operations that resolve an identifier and then act
ActingOps ==
    {"start_container", "stop_container", "restart_container",
     "remove_container", "pause_container", "unpause_container",
     "get_container_logs", "exec_command", "remove_image"}

\* C11 (as stated): every invocation of a registered operation issues exactly
\* one call to the collaborator, on every path.
C11_ExactlyOneCall ==
    \A t \in Threads : Invoked(t) => Len(calls[t]) = 1

\* C11 (amended): every invocation issues one or two collaborator calls; a
\* second call is made exactly when the first one succeeded and either the
\* operation acts on the entity it resolved or run_container got a bare
\* identifier back; an operation still running has made at most one call.
C11_OneOrTwoCalls ==
    \A t \in Threads :
        /\ pc[t] = "running" => Len(calls[t]) \in {0, 1}
        /\ Invoked(t) =>
              /\ Len(calls[t]) \in {1, 2}
              /\ Len(calls[t]) = 2 <=>
                    /\ ~calls[t][1].raised
                    /\ \/ frame[t].op \in ActingOps
                       \/ /\ frame[t].op = "run_container"
                          /\ calls[t][1].shape = "id"

\* restart_container resolved its container and restarted it: two calls
C11_Witness ==
    \E t \in Threads :
        /\ Invoked(t)
        /\ frame[t].op = "restart_container"
        /\ Len(calls[t]) = 2
        /\ calls[t][1].name = "containers.get" /\ ~calls[t][1].raised
        /\ calls[t][2].name = "restart" /\ ~calls[t][2].raised
        /\ resp[t].envelope.result.status = "restarted"

\* operations that take a container_id or an image_id
IdentifierOps == ActingOps \cup {"inspect_container"}

\* C12: in every operation that takes a container_id or image_id the first
\* call resolves the identifier; an action is issued only after a successful
\* resolution and on the handle it returned; when the resolution fails no
\* further call is made and the result is {"error": message}.
C12_ActOnResolvedHandle ==
    \A t \in Threads :
        (frame[t].op \in IdentifierOps /\ Len(calls[t]) >= 1) =>
            /\ calls[t][1].name \in {"containers.get", "images.get"}
            /\ \A i \in 2..Len(calls[t]) :
                 /\ ~calls[t][1].raised
                 /\ calls[t][i].via = "handle"
                 /\ calls[t][i].client = calls[t][1].client
            /\ calls[t][1].raised =>
                 /\ Len(calls[t]) = 1
                 /\ pc[t] = "responded"
                 /\ resp[t].envelope.result.keys = {"error"}
                 /\ resp[t].envelope.result.message = calls[t][1].msg

FormKeys(op) ==
    IF op = "pull_image" THEN {"id", "tags", "status"}
    ELSE {"id", "name", "status", "image"}

\* C13: when the collaborator calls of run_container, create_container or
\* pull_image succeed, the result has the same keys whether a handle or a
\* bare identifier came back, and a bare identifier is re-resolved to a
\* handle by a further call before the result is built.
C13_OneStructuredForm ==
    \A t \in Threads :
        (/\ Invoked(t)
         /\ frame[t].op \in {"run_container", "create_container", "pull_image"}
         /\ calls[t][1].shape \in {"handle", "id"}
         /\ \A i \in DOMAIN calls[t] : ~calls[t][i].raised) =>
            /\ resp[t].envelope.result.keys = FormKeys(frame[t].op)
            /\ calls[t][1].shape = "id" =>
                 /\ Len(calls[t]) = 2
                 /\ calls[t][2].name \in {"containers.get", "images.get"}

PropNames(d) == {p.name : p \in d.properties}

\* C14: the manifest and the operations agree: one entry per operation and no
\* other entry; in each entry the required names are declared fields, the
\* declared fields are the operation's parameter names and the required set
\* is its parameters without a default; so a request that supplies the
\* required fields and only declared fields of its entry binds and runs.
C14_RegistryMatchesExecutor ==
    /\ \A n \in Operations : Cardinality({d \in manifest : d.name = n}) = 1
    /\ \A d \in manifest :
         /\ d.name \in Operations
         /\ d.required \subseteq PropNames(d)
         /\ PropNames(d) = Declared(d.name)
         /\ d.required = Required(d.name)
    /\ \A t \in Threads :
         (/\ RoutedPost(t)
          /\ Value(t).method.type = "string"
          /\ RequestParams(t).type = "object"
          /\ \E d \in manifest :
               /\ d.name = Value(t).method.v
               /\ d.required \subseteq DOMAIN RequestParams(t).kv
               /\ DOMAIN RequestParams(t).kv \subseteq PropNames(d)) =>
            /\ frame[t].op = Value(t).method.v
            /\ frame[t].args = RequestParams(t).kv
            /\ pc[t] = "responded" => resp[t].envelope.code # -32603

\* exec_command was sent every field its manifest entry declares, and ran
C14_Witness ==
    \E t \in Threads :
        /\ Invoked(t) /\ RoutedPost(t)
        /\ Value(t).method = JStr("exec_command")
        /\ \E d \in manifest :
             /\ d.name = "exec_command"
             /\ d.required = {"container_id", "command"}
             /\ DOMAIN Value(t).params.kv = PropNames(d)
        /\ Len(calls[t]) = 2
        /\ resp[t].envelope.result.keys = {"exit_code", "output"}

====
